---- MODULE Spec2Model ----
(***************************************************************************)
(* Model of telegram_forward_bot.py: the tenant registry (the module-level *)
(* dict `tenants`) and the command handlers create_tenant, add_source and  *)
(* add_destination.  Every handler is an asyncio coroutine: the code       *)
(* between two `await`s runs without interruption on the event loop, and   *)
(* the only suspension point of each path is its `await reply_text(...)`.  *)
(***************************************************************************)
EXTENDS Integers, Sequences, FiniteSets, TLC

\* ------------------------------------------------------------------ bounds
MaxUpdates == 4          \* updates the dispatcher delivers in one run

\* ------------------------------------------------------------ input domains
OWNER_USER_ID == 1       \* line 7: the configured numeric owner id
OtherUser == OWNER_USER_ID + 1
Users == {OWNER_USER_ID, OtherUser}
Chats == {555, 777}
Names == {"ali", "ghost"}
Commands == {"create_tenant", "add_source", "add_destination"}
ArgLists == {<<>>} \cup {<<n>> : n \in Names}
\* The handler tasks that can be in flight together: a pair, the concurrency
\* the handlers' interleavings need.
Tasks == {"t1", "t2"}

\* An update as the handlers read it: effective_user.id, effective_chat.id,
\* context.args, and the command the dispatcher matched.
Updates == [cmd : Commands, user : Users, chat : Chats, args : ArgLists]
NoUpdate == [cmd |-> "none", user |-> 0, chat |-> 0, args |-> <<>>]

\* ------------------------------------------------------------ reply texts
\* The literal strings of the reply_text calls, by role; a success text
\* interpolates the tenant name.
PermissionDenied == <<"denied">>                         \* line 13
UsageCreateTenant == <<"usage", "create_tenant">>       \* line 17
UsageAddSource == <<"usage", "add_source">>             \* line 26
UsageAddDestination == <<"usage", "add_destination">>   \* line 40
TenantCreated(n) == <<"created", n>>                     \* line 22
SourceAdded(n) == <<"source_added", n>>                  \* line 34
DestinationAdded(n) == <<"destination_added", n>>
TenantNotFound == <<"not_found">>                        \* line 36

\* ------------------------------------------------------------ the registry
EmptyTenant == [sources |-> <<>>, destinations |-> <<>>]

\* tenants[name] = value on a dict: inserts the key or replaces its value.
DictSet(reg, name, value) ==
    [k \in (DOMAIN reg) \cup {name} |-> IF k = name THEN value ELSE reg[k]]

\* What a handler body does before it suspends: the registry it leaves and
\* the replies it awaits, in order.
Outcome(reg, replies) == [reg |-> reg, replies |-> replies]

\* ---------------------------------------------------------------- handlers
\* Variants of create_tenant with one slip each.
\* tenants = {tenant_name: {...}}: rebinding the dict instead of setting a key.
create_tenant_rebinds(reg, u) ==
    IF u.user # OWNER_USER_ID
    THEN Outcome(reg, <<PermissionDenied>>)
    ELSE IF Len(u.args) < 1
    THEN Outcome(reg, <<UsageCreateTenant>>)
    ELSE Outcome([k \in {u.args[1]} |-> EmptyTenant], <<TenantCreated(u.args[1])>>)

\* The argument check placed before the owner check.
create_tenant_args_first(reg, u) ==
    IF Len(u.args) < 1
    THEN Outcome(reg, <<UsageCreateTenant>>)
    ELSE IF u.user # OWNER_USER_ID
    THEN Outcome(reg, <<PermissionDenied>>)
    ELSE Outcome(DictSet(reg, u.args[1], EmptyTenant), <<TenantCreated(u.args[1])>>)

\* No owner check at all, as in add_source.
create_tenant_anyone(reg, u) ==
    IF Len(u.args) < 1
    THEN Outcome(reg, <<UsageCreateTenant>>)
    ELSE Outcome(DictSet(reg, u.args[1], EmptyTenant), <<TenantCreated(u.args[1])>>)

\* The `return` after the denial reply left out: the body falls through.
create_tenant_no_return(reg, u) ==
    LET denied == IF u.user # OWNER_USER_ID THEN <<PermissionDenied>> ELSE <<>>
    IN  IF Len(u.args) < 1
        THEN Outcome(reg, denied \o <<UsageCreateTenant>>)
        ELSE Outcome(DictSet(reg, u.args[1], EmptyTenant),
                     denied \o <<TenantCreated(u.args[1])>>)

\* tenants.setdefault(tenant_name, {...}): an existing tenant is kept.
create_tenant_keeps_existing(reg, u) ==
    IF u.user # OWNER_USER_ID
    THEN Outcome(reg, <<PermissionDenied>>)
    ELSE IF Len(u.args) < 1
    THEN Outcome(reg, <<UsageCreateTenant>>)
    ELSE IF u.args[1] \in DOMAIN reg
    THEN Outcome(reg, <<TenantCreated(u.args[1])>>)
    ELSE Outcome(DictSet(reg, u.args[1], EmptyTenant), <<TenantCreated(u.args[1])>>)

create_tenant(reg, u) ==
    IF u.user # OWNER_USER_ID
    THEN Outcome(reg, <<PermissionDenied>>)
    ELSE IF Len(u.args) < 1
    THEN Outcome(reg, <<UsageCreateTenant>>)
    ELSE LET tenant_name == u.args[1]
         IN  Outcome(DictSet(reg, tenant_name, EmptyTenant),
                     <<TenantCreated(tenant_name)>>)

\* Variants of add_source with one slip each.
\* A chat id already in the list is not appended again.
add_source_unique(reg, u) ==
    IF u.args = <<>>
    THEN Outcome(reg, <<UsageAddSource>>)
    ELSE IF u.args[1] \in DOMAIN reg
    THEN Outcome([reg EXCEPT ![u.args[1]].sources =
                      IF \E i \in 1..Len(@) : @[i] = u.chat THEN @ ELSE Append(@, u.chat)],
                 <<SourceAdded(u.args[1])>>)
    ELSE Outcome(reg, <<TenantNotFound>>)

\* tenants.setdefault(tenant_name, {...})["sources"].append(chat_id): an
\* unknown tenant is created on the fly.
add_source_autocreate(reg, u) ==
    IF u.args = <<>>
    THEN Outcome(reg, <<UsageAddSource>>)
    ELSE IF u.args[1] \in DOMAIN reg
    THEN Outcome([reg EXCEPT ![u.args[1]].sources = Append(@, u.chat)],
                 <<SourceAdded(u.args[1])>>)
    ELSE Outcome(DictSet(reg, u.args[1], [sources |-> <<u.chat>>, destinations |-> <<>>]),
                 <<SourceAdded(u.args[1])>>)

\* The owner check of create_tenant copied into add_source.
add_source_owner_only(reg, u) ==
    IF u.user # OWNER_USER_ID
    THEN Outcome(reg, <<PermissionDenied>>)
    ELSE IF u.args = <<>>
    THEN Outcome(reg, <<UsageAddSource>>)
    ELSE IF u.args[1] \in DOMAIN reg
    THEN Outcome([reg EXCEPT ![u.args[1]].sources = Append(@, u.chat)],
                 <<SourceAdded(u.args[1])>>)
    ELSE Outcome(reg, <<TenantNotFound>>)

add_source(reg, u) ==
    IF u.args = <<>>
    THEN Outcome(reg, <<UsageAddSource>>)
    ELSE LET tenant_name == u.args[1]
             chat_id == u.chat
         IN  IF tenant_name \in DOMAIN reg
             THEN Outcome([reg EXCEPT ![tenant_name].sources = Append(@, chat_id)],
                          <<SourceAdded(tenant_name)>>)
             ELSE Outcome(reg, <<TenantNotFound>>)

\* Lines 38-44 are in the source (argument check, tenant_name, chat_id); the
\* rest of the handler is cut off and follows the specification: "symmetric
\* to add_source".
add_destination(reg, u) ==
    IF u.args = <<>>
    THEN Outcome(reg, <<UsageAddDestination>>)
    ELSE LET tenant_name == u.args[1]
             chat_id == u.chat
         IN  IF tenant_name \in DOMAIN reg
             THEN Outcome([reg EXCEPT ![tenant_name].destinations = Append(@, chat_id)],
                          <<DestinationAdded(tenant_name)>>)
             ELSE Outcome(reg, <<TenantNotFound>>)

\* The CommandHandler table: the callback run for a command.
Handler(reg, u) ==
    CASE u.cmd = "create_tenant" -> create_tenant(reg, u)
      [] u.cmd = "add_source" -> add_source(reg, u)
      [] u.cmd = "add_destination" -> add_destination(reg, u)

\* ------------------------------------------------------------------- state
VARIABLES
    tenants,    \* the module-level dict `tenants`
    tasks,      \* per handler task: position, its update, the replies it awaits
    inbox,      \* per chat: command updates received from it
    outbox,     \* per chat: reply messages sent to it
    runs,       \* the handler bodies executed most recently, oldest first, each
                \* with the registry it started from, while all of their tasks
                \* are still suspended at their replies
    created     \* names passed to a successful create_tenant by the owner

vars == <<tenants, tasks, inbox, outbox, runs, created>>

IdleTask == [pc |-> "idle", u |-> NoUpdate, pending |-> <<>>]

Received == inbox[555] + inbox[777]

Init ==
    /\ tenants = <<>>
    /\ tasks = [t \in Tasks |-> IdleTask]
    /\ inbox = [c \in Chats |-> 0]
    /\ outbox = [c \in Chats |-> 0]
    /\ runs = <<>>
    /\ created = {}

\* The dispatcher hands update u to task t, whose handler body runs from its
\* first line to its `await reply_text(...)` as one uninterrupted step of the
\* event loop, working on registry reg.
DispatchOn(reg, t, u) ==
    /\ tasks[t].pc = "idle"
    /\ Received < MaxUpdates
    /\ inbox' = [inbox EXCEPT ![u.chat] = @ + 1]
    /\ LET out == Handler(reg, u)
       IN  /\ tenants' = out.reg
           /\ tasks' = [tasks EXCEPT ![t] = [pc |-> "await", u |-> u, pending |-> out.replies]]
           /\ runs' = Append(runs, [task |-> t, u |-> u, before |-> tenants,
                                    replies |-> out.replies])
    /\ created' = IF /\ u.cmd = "create_tenant"
                     /\ u.user = OWNER_USER_ID
                     /\ u.args # <<>>
                  THEN created \cup {u.args[1]}
                  ELSE created
    /\ UNCHANGED outbox

\* A body that works on the registry as it was before the previous body,
\* still in flight, ran: a read taken across a suspension point.
DispatchStaleRead(t, u) ==
    DispatchOn(IF runs # <<>> THEN runs[Len(runs)].before ELSE tenants, t, u)

\* The body reads and writes the shared dict itself, at the time it runs.
Dispatch(t, u) ==
    DispatchOn(tenants, t, u)

\* The position of task t's body in runs (0: none).
RunIndex(t) ==
    IF \E i \in 1..Len(runs) : runs[i].task = t
    THEN CHOOSE i \in 1..Len(runs) : runs[i].task = t
    ELSE 0

\* An awaited reply_text completes: the message goes to the chat of the
\* update, and the handler returns when it awaits nothing more.
Deliver(t) ==
    /\ tasks[t].pc = "await"
    /\ LET task == tasks[t]
           rest == Tail(task.pending)
       IN  /\ outbox' = [outbox EXCEPT ![task.u.chat] = @ + 1]
           /\ IF rest = <<>>
              THEN /\ tasks' = [tasks EXCEPT ![t] = IdleTask]
                   /\ runs' = SubSeq(runs, RunIndex(t) + 1, Len(runs))
              ELSE /\ tasks' = [tasks EXCEPT ![t].pending = rest]
                   /\ runs' = runs
    /\ UNCHANGED <<tenants, inbox, created>>

Next ==
    \/ \E t \in Tasks, u \in Updates : Dispatch(t, u)
    \/ \E t \in Tasks : Deliver(t)

Spec == Init /\ [][Next]_vars

\* ------------------------------------------------------------ properties
\* The handler body executed last, while its task is suspended at its reply:
\* tenants is the registry that body left, Last.before the one it found.
HasLast == runs # <<>>
Last == runs[Len(runs)]
LastArg == Last.u.args[1]

Contains(seq, x) == \E i \in 1..Len(seq) : seq[i] = x

\* Registry `after` is registry `before` with key n set to `value` and nothing
\* else touched.
OnlyKeyChanged(before, after, n, value) ==
    /\ DOMAIN after = (DOMAIN before) \cup {n}
    /\ after[n] = value
    /\ \A k \in (DOMAIN before) \ {n} : after[k] = before[k]

\* The reply of the last body is `text` alone, awaited by the task that got
\* the update, which Deliver sends to the update's chat.
OnlyReply(text) ==
    /\ Last.replies = <<text>>
    /\ tasks[Last.task].u = Last.u
    /\ tasks[Last.task].pending = <<text>>

\* C1: create_tenant by the owner with a name n that is not yet a key ends
\* with Registry[n] = {sources: [], destinations: []}, every other entry
\* unchanged, and the success reply for n awaited for the invoking chat.
C1_CreateNewTenant ==
    (/\ HasLast
     /\ Last.u.cmd = "create_tenant"
     /\ Last.u.user = OWNER_USER_ID
     /\ Last.u.args # <<>>
     /\ LastArg \notin DOMAIN Last.before)
    => /\ OnlyKeyChanged(Last.before, tenants, LastArg,
                         [sources |-> <<>>, destinations |-> <<>>])
       /\ OnlyReply(TenantCreated(LastArg))

\* A new tenant has just been created beside another one that holds a source.
C1_Witness ==
    /\ HasLast
    /\ Last.u.cmd = "create_tenant"
    /\ Last.u.user = OWNER_USER_ID
    /\ Last.u.args # <<>>
    /\ LastArg \notin DOMAIN Last.before
    /\ \E k \in DOMAIN Last.before : Last.before[k].sources # <<>>
    /\ LastArg \in DOMAIN tenants

\* C2: add_source(n, c) on an existing tenant n appends c at the end of
\* Registry[n].sources, also when c is already in the list, and leaves
\* Registry[n].destinations, the key set and every other tenant unchanged.
C2_AddSourceAppends ==
    (/\ HasLast
     /\ Last.u.cmd = "add_source"
     /\ Last.u.args # <<>>
     /\ LastArg \in DOMAIN Last.before)
    => /\ DOMAIN tenants = DOMAIN Last.before
       /\ tenants[LastArg].sources = Last.before[LastArg].sources \o <<Last.u.chat>>
       /\ tenants[LastArg].destinations = Last.before[LastArg].destinations
       /\ \A k \in (DOMAIN Last.before) \ {LastArg} : tenants[k] = Last.before[k]

\* The chat was already a source of the tenant, which also holds a
\* destination, and has been appended a second time.
C2_Witness ==
    /\ HasLast
    /\ Last.u.cmd = "add_source"
    /\ Last.u.args # <<>>
    /\ LastArg \in DOMAIN Last.before
    /\ Contains(Last.before[LastArg].sources, Last.u.chat)
    /\ Last.before[LastArg].destinations # <<>>
    /\ Len(tenants[LastArg].sources) = Len(Last.before[LastArg].sources) + 1

\* C3: add_source(n, c) with n not a key leaves the whole registry unchanged
\* (n is not created) and its only reply is the TenantNotFound text.
C3_AddSourceUnknownTenant ==
    (/\ HasLast
     /\ Last.u.cmd = "add_source"
     /\ Last.u.args # <<>>
     /\ LastArg \notin DOMAIN Last.before)
    => /\ tenants = Last.before
       /\ LastArg \notin DOMAIN tenants
       /\ OnlyReply(TenantNotFound)

\* add_source has run for a name that is no key, while another tenant exists.
C3_Witness ==
    /\ HasLast
    /\ Last.u.cmd = "add_source"
    /\ Last.u.args # <<>>
    /\ LastArg \notin DOMAIN Last.before
    /\ DOMAIN Last.before # {}
    /\ Last.replies = <<TenantNotFound>>

\* C4: create_tenant by a user other than the owner, with or without
\* arguments, leaves the registry unchanged and its only reply is the
\* PermissionDenied text (never the usage text).
C4_CreateByNonOwnerDenied ==
    (/\ HasLast
     /\ Last.u.cmd = "create_tenant"
     /\ Last.u.user # OWNER_USER_ID)
    => /\ tenants = Last.before
       /\ OnlyReply(PermissionDenied)

\* A non-owner has invoked create_tenant without arguments on a registry that
\* holds a tenant.
C4_Witness ==
    /\ HasLast
    /\ Last.u.cmd = "create_tenant"
    /\ Last.u.user # OWNER_USER_ID
    /\ Last.u.args = <<>>
    /\ DOMAIN Last.before # {}
    /\ Last.replies = <<PermissionDenied>>

\* C5: every command is gated by the owner check: an invocation by a user
\* other than the owner never changes the registry and is answered with the
\* denial message.
C5_AllCommandsOwnerGated ==
    (/\ HasLast
     /\ Last.u.user # OWNER_USER_ID)
    => /\ tenants = Last.before
       /\ Last.replies = <<PermissionDenied>>

C7_KeysAreCreatedTenants ==
    /\ DOMAIN tenants \subseteq created
    /\ created \subseteq DOMAIN tenants
    /\ \A n \in DOMAIN tenants : DOMAIN tenants[n] = {"sources", "destinations"}

\* add_source or add_destination has just run for a name never created, and
\* a created tenant holds a non-empty list.
C7_Witness ==
    /\ HasLast
    /\ Last.u.cmd \in {"add_source", "add_destination"}
    /\ Last.u.args # <<>>
    /\ LastArg \notin created
    /\ \E n \in created : n \in DOMAIN tenants /\ tenants[n].destinations # <<>>

\* The replies that report a registry mutation, and those that report none.
SuccessReplies ==
    {TenantCreated(n) : n \in Names} \cup {SourceAdded(n) : n \in Names}
        \cup {DestinationAdded(n) : n \in Names}
FailureReplies ==
    {PermissionDenied, UsageCreateTenant, UsageAddSource, UsageAddDestination,
     TenantNotFound}

InFlight(c) == {t \in Tasks : tasks[t].pc = "await" /\ tasks[t].u.chat = c}

\* One key of the registry was assigned once: set to an empty tenant, or one
\* chat id appended to one of its two lists.
OneMutation(before, after) ==
    \E n \in DOMAIN after :
        /\ DOMAIN after = (DOMAIN before) \cup {n}
        /\ \A k \in (DOMAIN before) \ {n} : after[k] = before[k]
        /\ \/ after[n] = [sources |-> <<>>, destinations |-> <<>>]
           \/ /\ n \in DOMAIN before
              /\ \E c \in Chats :
                    \/ after[n] = [sources |-> before[n].sources \o <<c>>,
                                   destinations |-> before[n].destinations]
                    \/ after[n] = [sources |-> before[n].sources,
                                   destinations |-> before[n].destinations \o <<c>>]

\* C8: every invocation, on every path, sends exactly one reply to the
\* invoking chat (per chat, the replies sent and the replies still awaited
\* add up to the updates received, and a suspended handler awaits exactly
\* one); a successful invocation performs exactly one registry mutation and a
\* failed one none.
C8_OneReplyOneMutation ==
    /\ \A c \in Chats : inbox[c] = outbox[c] + Cardinality(InFlight(c))
    /\ \A t \in Tasks : tasks[t].pc = "await" => Len(tasks[t].pending) = 1
    /\ HasLast =>
        /\ Len(Last.replies) = 1
        /\ Last.replies[1] \in SuccessReplies \cup FailureReplies
        /\ Last.replies[1] \in SuccessReplies => OneMutation(Last.before, tenants)
        /\ Last.replies[1] \in FailureReplies => tenants = Last.before

\* A failed invocation has just run while a successful one is still awaiting
\* its reply, and a reply has already been sent.
C8_Witness ==
    /\ HasLast
    /\ Len(runs) = 2
    /\ Last.replies[1] \in FailureReplies
    /\ runs[1].replies[1] \in SuccessReplies
    /\ \E c \in Chats : outbox[c] > 0

\* C9: create_tenant(n) by the owner for an n that is already a key replaces
\* Registry[n] with {sources: [], destinations: []}, whatever its lists held,
\* replies success, and leaves every other tenant unchanged.
C9_CreateOverwritesExisting ==
    (/\ HasLast
     /\ Last.u.cmd = "create_tenant"
     /\ Last.u.user = OWNER_USER_ID
     /\ Last.u.args # <<>>
     /\ LastArg \in DOMAIN Last.before)
    => /\ DOMAIN tenants = DOMAIN Last.before
       /\ tenants[LastArg] = [sources |-> <<>>, destinations |-> <<>>]
       /\ \A k \in (DOMAIN Last.before) \ {LastArg} : tenants[k] = Last.before[k]
       /\ OnlyReply(TenantCreated(LastArg))

\* A tenant that held a source and a destination has been re-created.
C9_Witness ==
    /\ HasLast
    /\ Last.u.cmd = "create_tenant"
    /\ Last.u.user = OWNER_USER_ID
    /\ Last.u.args # <<>>
    /\ LastArg \in DOMAIN Last.before
    /\ Last.before[LastArg].sources # <<>>
    /\ Last.before[LastArg].destinations # <<>>
    /\ tenants[LastArg].sources = <<>>

\* Two add_source bodies for the same existing tenant have run one after the
\* other in different tasks, and both tasks are still suspended at their
\* replies: the two invocations overlap.
ConcurrentAddSources ==
    /\ Len(runs) = 2
    /\ runs[1].task # runs[2].task
    /\ runs[1].u.cmd = "add_source"
    /\ runs[2].u.cmd = "add_source"
    /\ runs[1].u.args # <<>>
    /\ runs[2].u.args = runs[1].u.args
    /\ runs[1].u.args[1] \in DOMAIN runs[1].before
    /\ tasks[runs[1].task].pc = "await"
    /\ tasks[runs[2].task].pc = "await"

BothAppended ==
    LET n == runs[1].u.args[1]
    IN  /\ n \in DOMAIN tenants
        /\ tenants[n].sources =
              runs[1].before[n].sources \o <<runs[1].u.chat, runs[2].u.chat>>

====
